---- MODULE Spec2Model ----
(***************************************************************************)
(* Model of the WebSocket connection manager of nadmon-backend             *)
(* (package websocket, src/main.go lines 177-504): the Manager with its    *)
(* registry map, its three unbuffered command channels and its RWMutex,    *)
(* the dispatcher loop Manager.Start, the delivery API, and the two pumps  *)
(* of every Client.                                                        *)
(*                                                                         *)
(* Granularity.  Every goroutine is a process with a program counter.  A   *)
(* step is one channel operation, one lock-protected section, or one       *)
(* handler body.  The dispatcher's handlers only perform non-blocking      *)
(* channel operations, each on the channel of one client, so a handler     *)
(* body is one step once its lock is acquired; the receive from the        *)
(* command channel (the select of Start) is a separate step before it.     *)
(* A Go panic in any goroutine ends the process: it is recorded in the     *)
(* variable panic and no step is taken afterwards.                         *)
(***************************************************************************)
EXTENDS Integers, Sequences, FiniteSets, TLC

\* ---- bounds of the model ----
\* connections attempted, capacity of Client.Send (256 in the source), and
\* inputs: connections, API calls, inbound frames and transport faults
MaxSessions == 2
SendCap == 2
MaxEvents == 4

\* the clock: its ticks per second and the last tick of the model
TicksPerSecond == 2
MaxClock == 3

\* ---- values ----
Addresses == {"0xA", "0xB"}
Sessions == 1..MaxSessions
NoClient == 0
NoAddr == "none"
NotifyTypes == {"note"}
BroadcastTypes == {"price"}
NoStats == [connected_clients |-> 0, connected_users |-> {"none"}]
NoID == <<>>
NoPanic == "none"
CloseOfClosed == "close of closed channel"
SendOnClosed == "send on closed channel"
NilDereference == "nil pointer dereference"
ConcurrentMapAccess == "concurrent map read and map write"

VARIABLES
    clients,      \* m.clients: address -> client (NoClient: no entry)
    addr,         \* Client.Address of every created client
    Send,         \* Client.Send: the buffered messages of the channel
    chClosed,     \* Client.Send has been closed
    connClosed,   \* Client.Conn has been closed on this side
    seq,          \* number of messages ever accepted by Client.Send
    inserted,     \* number of times the client was stored in m.clients
    removed,      \* number of times the client's entry left m.clients
    wire,         \* sequence numbers of the messages written to Client.Conn
    closeFrame,   \* the write pump has written the close frame
    upPc,         \* UpgradeConnection of the client: "none", "register", "started",
                  \* or "failed" when the upgrade failed and no client was built
    readPc,       \* readPump: "off", "read", "unregister", "close", "done"
    writePc,      \* writePump: "off", "run", "done"
    dispPc,       \* Start: "select", "register", "unregister", "broadcast"
    dispArg,      \* the command received by Start: the client (for an unregister
                  \* with its sender) or the type of the message
    muWriter,     \* m.mu: the dispatcher waits in Lock()
    muReaders,    \* m.mu: read locks held across steps (by GetStats)
    notifyPc,     \* NotifyUser: "idle", "absent", "send", "unregister"
    notifyArg,    \* NotifyUser: its client and message type
    bcastPc,      \* BroadcastToAll: "idle", "send"
    bcastArg,     \* BroadcastToAll: its message type
    statsPc,      \* GetStats: "idle", "users"
    statsLen,     \* GetStats: the value of len(m.clients) it read
    statsOut,     \* the value the last GetStats returned, NoStats during a call
    now,          \* time.Now(), in ticks
    ID,           \* Client.ID of every client built
    arrival,      \* the commands whose senders wait on a command channel, in
                  \* the order in which they began to wait
    events,       \* number of inputs so far: connections, API calls, inbound
                  \* frames and transport faults
    panic         \* the panic that ended the process, or NoPanic

vars == <<clients, addr, Send, chClosed, connClosed, seq, inserted, removed,
          wire, closeFrame,
          upPc, readPc, writePc, dispPc, dispArg, muWriter, muReaders,
          notifyPc, notifyArg, bcastPc, bcastArg, statsPc, statsLen, statsOut,
          now, ID, arrival, events, panic>>

\* The part of the state the dispatcher's handlers work on.
M == [clients |-> clients, Send |-> Send, chClosed |-> chClosed,
      connClosed |-> connClosed, seq |-> seq, inserted |-> inserted,
      removed |-> removed, panic |-> panic]

\* ---- channel, transport and map primitives (Go semantics) ----
\* Each takes the state st before the statement and gives the state after it;
\* a statement is skipped once the goroutine has panicked.

\* a Message of the type; n is its position among the messages accepted by
\* the channel of c
Message(st, c, type) == [type |-> type, n |-> st.seq[c] + 1]

\* the buffer of c.Send holds SendCap messages (make(chan Message, 256))
Full(st, c) == Len(st.Send[c]) >= SendCap

\* close(c.Send): closing a closed channel panics
CloseSend(st, c) ==
    IF st.panic # NoPanic THEN st
    ELSE IF st.chClosed[c] THEN [st EXCEPT !.panic = CloseOfClosed]
    ELSE [st EXCEPT !.chClosed[c] = TRUE]

\* c.Conn.Close()
ConnClose(st, c) ==
    IF st.panic # NoPanic THEN st
    ELSE [st EXCEPT !.connClosed[c] = TRUE]

\* the send case of select { case c.Send <- message: ... default: ... },
\* taken when the buffer has room; a send on a closed channel panics
TrySend(st, c, type) ==
    IF st.panic # NoPanic THEN st
    ELSE IF st.chClosed[c] THEN [st EXCEPT !.panic = SendOnClosed]
    ELSE [st EXCEPT !.Send[c] = Append(@, Message(st, c, type)),
                    !.seq[c] = @ + 1]

\* a registry keyed by connection instead of by address
KeyOfConnection(c) == IF c % 2 = 1 THEN "0xA" ELSE "0xB"

\* the key under which a client is stored: client.Address
KeyOf(c) == addr[c]

\* the entry of the client e, if e is one, leaves the map
Removes(st, e) ==
    IF e = NoClient THEN st ELSE [st EXCEPT !.removed[e] = @ + 1]

\* delete(m.clients, key)
MapDelete(st, key) ==
    IF st.panic # NoPanic THEN st
    ELSE [Removes(st, st.clients[key]) EXCEPT !.clients[key] = NoClient]

\* m.clients[key] = c: the entry the key had is overwritten
MapSet(st, key, c) ==
    IF st.panic # NoPanic THEN st
    ELSE [Removes(st, st.clients[key]) EXCEPT !.clients[key] = c,
                                              !.inserted[c] = @ + 1]

\* ---- the dispatcher's handlers ----

\* a registerClient that closes a full queue and keeps its entry
registerClientKeepsEntry(st, c) ==
    LET existing == st.clients[KeyOf(c)]
        s1 == IF existing # NoClient
              THEN ConnClose(CloseSend(st, existing), existing)
              ELSE st
        s2 == MapSet(s1, KeyOf(c), c)
    IN  IF s2.panic # NoPanic THEN s2
        ELSE IF s2.chClosed[c] \/ ~Full(s2, c)
             THEN TrySend(s2, c, "connected")
             ELSE CloseSend(s2, c)

registerClient(st, c) ==
    LET existing == st.clients[KeyOf(c)]
        s1 == IF existing # NoClient
              THEN ConnClose(CloseSend(st, existing), existing)
              ELSE st
        s2 == MapSet(s1, KeyOf(c), c)
    IN  IF s2.panic # NoPanic THEN s2
        ELSE IF s2.chClosed[c] \/ ~Full(s2, c)
             THEN TrySend(s2, c, "connected")
             ELSE MapDelete(CloseSend(s2, c), KeyOf(c))

\* unregisterClient without the test for an entry
unregisterClientNoTest(st, c) ==
    ConnClose(CloseSend(MapDelete(st, KeyOf(c)), c), c)

unregisterClient(st, c) ==
    IF st.clients[KeyOf(c)] # NoClient
    THEN ConnClose(CloseSend(MapDelete(st, KeyOf(c)), c), c)
    ELSE st

\* an iteration that drops the message on a full queue and keeps the client
broadcastOneDrops(st, key, type) ==
    LET c == st.clients[key]
    IN  IF st.panic # NoPanic \/ c = NoClient THEN st
        ELSE IF st.chClosed[c] \/ ~Full(st, c)
             THEN TrySend(st, c, type)
             ELSE st

\* one iteration of the range loop of broadcastMessage
broadcastOne(st, key, type) ==
    LET c == st.clients[key]
    IN  IF st.panic # NoPanic \/ c = NoClient THEN st
        ELSE IF st.chClosed[c] \/ ~Full(st, c)
             THEN TrySend(st, c, type)
             ELSE MapDelete(CloseSend(st, c), key)

RECURSIVE broadcastRange(_, _, _)
broadcastRange(st, keys, type) ==
    IF keys = {} THEN st
    ELSE LET key == CHOOSE k \in keys : TRUE
         IN  broadcastRange(broadcastOne(st, key, type), keys \ {key}, type)

broadcastMessage(st, type) ==
    broadcastRange(st, {k \in Addresses : st.clients[k] # NoClient}, type)

\* ---- initial state: NewManager, no connection yet ----

NoArg == [client |-> NoClient, type |-> ""]

Init ==
    /\ clients = [a \in Addresses |-> NoClient]
    /\ addr = [s \in Sessions |-> NoAddr]
    /\ Send = [s \in Sessions |-> <<>>]
    /\ chClosed = [s \in Sessions |-> FALSE]
    /\ connClosed = [s \in Sessions |-> FALSE]
    /\ seq = [s \in Sessions |-> 0]
    /\ inserted = [s \in Sessions |-> 0]
    /\ removed = [s \in Sessions |-> 0]
    /\ wire = [s \in Sessions |-> <<>>]
    /\ closeFrame = [s \in Sessions |-> FALSE]
    /\ upPc = [s \in Sessions |-> "none"]
    /\ readPc = [s \in Sessions |-> "off"]
    /\ writePc = [s \in Sessions |-> "off"]
    /\ dispPc = "select"
    /\ dispArg = NoArg
    /\ muWriter = FALSE
    /\ muReaders = 0
    /\ notifyPc = "idle"
    /\ notifyArg = NoArg
    /\ bcastPc = "idle"
    /\ bcastArg = NoArg
    /\ statsPc = "idle"
    /\ statsLen = 0
    /\ statsOut = NoStats
    /\ now = 0
    /\ ID = [s \in Sessions |-> NoID]
    /\ arrival = <<>>
    /\ events = 0
    /\ panic = NoPanic

Running == panic = NoPanic

\* the handlers' result written back to the state
Commit(st) ==
    /\ clients' = st.clients
    /\ Send' = st.Send
    /\ chClosed' = st.chClosed
    /\ connClosed' = st.connClosed
    /\ seq' = st.seq
    /\ inserted' = st.inserted
    /\ removed' = st.removed
    /\ panic' = st.panic

\* a handler returns to the select of Start, unless it panicked
Handled(st) ==
    /\ Commit(st)
    /\ dispPc' = IF st.panic = NoPanic THEN "select" ELSE dispPc
    /\ dispArg' = IF st.panic = NoPanic THEN NoArg ELSE dispArg

apiVars == <<notifyPc, notifyArg, bcastPc, bcastArg, statsPc, statsLen, events>>
pumpVars == <<upPc, readPc, writePc, wire, closeFrame>>
muVars == <<muWriter, muReaders>>
chanVars == <<clients, Send, chClosed, connClosed, seq, inserted, removed, panic>>

\* the sender of the command x begins to wait on its channel
Submit(x) == arrival' = Append(arrival, x)

\* the dispatcher receives the command x
Receive(x) == arrival' = SelectSeq(arrival, LAMBDA y : y # x)

\* ---- UpgradeConnection ----

\* time.Now().Format("20060102150405"): the time t cut to its second
Format(t) == t \div TicksPerSecond

\* generateClientID at the time t
generateClientID(t) == <<Format(t), "-", "client">>

\* time passes
Tick ==
    /\ Running
    /\ now < MaxClock
    /\ now' = now + 1
    /\ UNCHANGED <<clients, addr, Send, chClosed, connClosed, seq, inserted,
                   removed, wire, closeFrame, upPc, readPc, writePc, dispPc,
                   dispArg, muWriter, muReaders, notifyPc, notifyArg, bcastPc,
                   bcastArg, statsPc, statsLen, statsOut, ID, arrival, events,
                   panic>>

\* The addresses a connection may come with.  The manager treats all
\* addresses alike, so the first client takes the first one.
AddressesOf(s) ==
    IF \A t \in Sessions : t < s => addr[t] = NoAddr THEN {"0xA"} ELSE Addresses

\* the earlier calls of UpgradeConnection have returned
EarlierReturned(s) ==
    \A t \in Sessions : t < s => upPc[t] \in {"started", "failed"}

\* upgrader.Upgrade succeeded: the client is built and the caller blocks in
\* m.register <- client.  A client that waits there is seen by nobody but
\* the select of Start, so clients are numbered in the order in which Start
\* receives them: the next one is built once Start has received the last.
UpgradeConnection(s, a) ==
    /\ Running
    /\ upPc[s] = "none"
    /\ EarlierReturned(s)
    /\ events < MaxEvents
    /\ events' = events + 1
    /\ addr' = [addr EXCEPT ![s] = a]
    /\ upPc' = [upPc EXCEPT ![s] = "register"]
    /\ UNCHANGED <<clients, Send, chClosed, connClosed, seq, inserted, removed,
                   wire, closeFrame, readPc, writePc, dispPc, dispArg,
                   muWriter, muReaders, notifyPc, notifyArg, bcastPc, bcastArg,
                   statsPc, statsLen, panic>>
    /\ Submit([kind |-> "register", client |-> s])
    /\ ID' = [ID EXCEPT ![s] = generateClientID(now)]
    /\ UNCHANGED <<statsOut, now>>

\* a failed upgrade that goes on with a client without a transport
UpgradeFailedGoesOn(s) ==
    /\ Running
    /\ upPc[s] = "none"
    /\ EarlierReturned(s)
    /\ events < MaxEvents
    /\ events' = events + 1
    /\ addr' = [addr EXCEPT ![s] = "0xA"]
    /\ upPc' = [upPc EXCEPT ![s] = "register"]
    /\ UNCHANGED <<clients, Send, chClosed, connClosed, seq, inserted, removed,
                   wire, closeFrame, readPc, writePc, dispPc, dispArg,
                   muWriter, muReaders, notifyPc, notifyArg, bcastPc, bcastArg,
                   statsPc, statsLen, panic>>
    /\ Submit([kind |-> "register", client |-> s])
    /\ UNCHANGED <<statsOut, now, ID>>

\* upgrader.Upgrade returned an error: it is logged and UpgradeConnection
\* returns before a client is built
UpgradeFailed(s) ==
    /\ Running
    /\ upPc[s] = "none"
    /\ EarlierReturned(s)
    /\ events < MaxEvents
    /\ events' = events + 1
    /\ upPc' = [upPc EXCEPT ![s] = "failed"]
    /\ UNCHANGED <<clients, addr, Send, chClosed, connClosed, seq, inserted,
                   removed, wire, closeFrame, readPc, writePc, dispPc, dispArg,
                   muWriter, muReaders, notifyPc, notifyArg, bcastPc, bcastArg,
                   statsPc, statsLen, panic>>
    /\ UNCHANGED arrival
    /\ UNCHANGED <<statsOut, now, ID>>

\* ---- Manager.Start: the select ----

\* case client := <-m.register; the sender goes on and starts both pumps
StartRegister(s) ==
    /\ Running
    /\ dispPc = "select"
    /\ upPc[s] = "register"
    /\ dispPc' = "register"
    /\ dispArg' = [client |-> s, type |-> ""]
    /\ upPc' = [upPc EXCEPT ![s] = "started"]
    /\ readPc' = [readPc EXCEPT ![s] = "read"]
    /\ writePc' = [writePc EXCEPT ![s] = "run"]
    /\ UNCHANGED <<addr, wire, closeFrame>>
    /\ UNCHANGED <<chanVars, muVars, apiVars>>
    /\ Receive([kind |-> "register", client |-> s])
    /\ UNCHANGED <<statsOut, now, ID>>

\* case client := <-m.unregister, sent by the deferred function of readPump
StartUnregisterPump(s) ==
    /\ Running
    /\ dispPc = "select"
    /\ readPc[s] = "unregister"
    /\ dispPc' = "unregister"
    /\ dispArg' = [client |-> s, type |-> "readPump"]
    /\ readPc' = [readPc EXCEPT ![s] = "close"]
    /\ UNCHANGED <<addr, upPc, writePc, wire, closeFrame>>
    /\ UNCHANGED <<chanVars, muVars, apiVars>>
    /\ Receive([kind |-> "unregister", client |-> s])
    /\ UNCHANGED <<statsOut, now, ID>>

\* case client := <-m.unregister, sent by NotifyUser, which returns
StartUnregisterNotify ==
    /\ Running
    /\ dispPc = "select"
    /\ notifyPc = "unregister"
    /\ dispPc' = "unregister"
    /\ dispArg' = [client |-> notifyArg.client, type |-> "NotifyUser"]
    /\ notifyPc' = "idle"
    /\ notifyArg' = NoArg
    /\ UNCHANGED <<addr, bcastPc, bcastArg, statsPc, statsLen, events>>
    /\ UNCHANGED <<chanVars, muVars, pumpVars>>
    /\ Receive([kind |-> "notify", client |-> NoClient])
    /\ UNCHANGED <<statsOut, now, ID>>

\* case message := <-m.broadcast; BroadcastToAll returns
StartBroadcast ==
    /\ Running
    /\ dispPc = "select"
    /\ bcastPc = "send"
    /\ dispPc' = "broadcast"
    /\ dispArg' = [client |-> NoClient, type |-> bcastArg.type]
    /\ bcastPc' = "idle"
    /\ bcastArg' = NoArg
    /\ UNCHANGED <<addr, notifyPc, notifyArg, statsPc, statsLen, events>>
    /\ UNCHANGED <<chanVars, muVars, pumpVars>>
    /\ Receive([kind |-> "broadcast", client |-> NoClient])
    /\ UNCHANGED <<statsOut, now, ID>>

\* ---- Manager.Start: the handlers ----

\* m.mu.Lock() while a read lock is held: the dispatcher waits, and from now
\* on no new read lock is granted (sync.RWMutex)
LockWait ==
    /\ Running
    /\ dispPc \in {"register", "unregister"}
    /\ muReaders > 0
    /\ ~muWriter
    /\ muWriter' = TRUE
    /\ UNCHANGED <<addr, dispPc, dispArg, muReaders>>
    /\ UNCHANGED <<chanVars, pumpVars, apiVars>>
    /\ UNCHANGED arrival
    /\ UNCHANGED <<statsOut, now, ID>>

DoRegister ==
    /\ Running
    /\ dispPc = "register"
    /\ muReaders = 0
    /\ Handled(registerClient(M, dispArg.client))
    /\ muWriter' = FALSE
    /\ UNCHANGED <<addr, muReaders>>
    /\ UNCHANGED <<pumpVars, apiVars>>
    /\ UNCHANGED arrival
    /\ UNCHANGED <<statsOut, now, ID>>

DoUnregister ==
    /\ Running
    /\ dispPc = "unregister"
    /\ muReaders = 0
    /\ Handled(unregisterClient(M, dispArg.client))
    /\ muWriter' = FALSE
    /\ UNCHANGED <<addr, muReaders>>
    /\ UNCHANGED <<pumpVars, apiVars>>
    /\ UNCHANGED arrival
    /\ UNCHANGED <<statsOut, now, ID>>

\* broadcastMessage takes the read lock: it never waits for GetStats
DoBroadcast ==
    /\ Running
    /\ dispPc = "broadcast"
    /\ ~muWriter
    /\ Handled(broadcastMessage(M, dispArg.type))
    /\ UNCHANGED <<addr, muWriter, muReaders>>
    /\ UNCHANGED <<pumpVars, apiVars>>
    /\ UNCHANGED arrival
    /\ UNCHANGED <<statsOut, now, ID>>

\* broadcastMessage deletes from m.clients while it holds the read lock only,
\* so another goroutine may read the map at the same time under its own read
\* lock: GetStats between its two reads, or a NotifyUser that is called now.
\* This is a data race: the delete and the read may take effect in either
\* order (the steps DoBroadcast, GetStatsUsers and NotifyUserLookup), or the Go
\* runtime detects the race and ends the process with a fatal error.
DoBroadcastRace ==
    /\ Running
    /\ dispPc = "broadcast"
    /\ ~muWriter
    /\ broadcastMessage(M, dispArg.type).clients # clients
    /\ \/ statsPc = "users"
       \/ notifyPc = "idle" /\ events < MaxEvents
    /\ panic' = ConcurrentMapAccess
    /\ UNCHANGED <<clients, addr, Send, chClosed, connClosed, seq, inserted,
                   removed, dispPc, dispArg>>
    /\ UNCHANGED <<muVars, pumpVars, apiVars>>
    /\ UNCHANGED arrival
    /\ UNCHANGED <<statsOut, now, ID>>

\* ---- the delivery API ----

\* a lookup that ignores exists and uses the nil client
NotifyUserLookupNoTest(a, type) ==
    /\ Running
    /\ notifyPc = "idle"
    /\ events < MaxEvents
    /\ ~muWriter
    /\ events' = events + 1
    /\ IF clients[a] = NoClient
       THEN /\ panic' = NilDereference
            /\ UNCHANGED <<notifyPc, notifyArg>>
       ELSE /\ notifyPc' = "send"
            /\ notifyArg' = [client |-> clients[a], type |-> type]
            /\ UNCHANGED panic
    /\ UNCHANGED <<addr, dispPc, dispArg, bcastPc, bcastArg, statsPc, statsLen>>
    /\ UNCHANGED <<clients, Send, chClosed, connClosed, seq, inserted, removed>>
    /\ UNCHANGED <<muVars, pumpVars>>
    /\ UNCHANGED arrival
    /\ UNCHANGED <<statsOut, now, ID>>

\* NotifyUser, lines 322-324: the lookup under the read lock
NotifyUserLookup(a, type) ==
    /\ Running
    /\ notifyPc = "idle"
    /\ events < MaxEvents
    /\ ~muWriter
    /\ events' = events + 1
    /\ IF clients[a] = NoClient
       THEN /\ notifyPc' = "absent"
            /\ UNCHANGED notifyArg
       ELSE /\ notifyPc' = "send"
            /\ notifyArg' = [client |-> clients[a], type |-> type]
    /\ UNCHANGED <<addr, dispPc, dispArg, bcastPc, bcastArg, statsPc, statsLen>>
    /\ UNCHANGED <<chanVars, muVars, pumpVars>>
    /\ UNCHANGED arrival
    /\ UNCHANGED <<statsOut, now, ID>>

\* NotifyUser, lines 326-328: no entry for the address, return
NotifyUserAbsent ==
    /\ Running
    /\ notifyPc = "absent"
    /\ notifyPc' = "idle"
    /\ UNCHANGED <<addr, dispPc, dispArg, notifyArg, bcastPc, bcastArg, statsPc,
                   statsLen, events>>
    /\ UNCHANGED <<chanVars, muVars, pumpVars>>
    /\ UNCHANGED arrival
    /\ UNCHANGED <<statsOut, now, ID>>

\* a NotifyUser that evicts the client of a full queue by itself
NotifyUserSendEvicts ==
    /\ Running
    /\ notifyPc = "send"
    /\ LET c == notifyArg.client
       IN  IF chClosed[c] \/ ~Full(M, c)
           THEN Commit(TrySend(M, c, notifyArg.type))
           ELSE Commit(MapDelete(CloseSend(M, c), KeyOf(c)))
    /\ notifyPc' = "idle"
    /\ notifyArg' = NoArg
    /\ UNCHANGED <<addr, dispPc, dispArg, bcastPc, bcastArg, statsPc, statsLen,
                   events>>
    /\ UNCHANGED <<muVars, pumpVars>>
    /\ UNCHANGED arrival
    /\ UNCHANGED <<statsOut, now, ID>>

\* NotifyUser, lines 336-342: the non-blocking send; on a full queue the
\* caller goes on to m.unregister <- client
NotifyUserSend ==
    /\ Running
    /\ notifyPc = "send"
    /\ LET c == notifyArg.client
       IN  IF chClosed[c] \/ ~Full(M, c)
           THEN /\ Commit(TrySend(M, c, notifyArg.type))
                /\ notifyPc' = "idle"
                /\ notifyArg' = NoArg
           ELSE /\ notifyPc' = "unregister"
                /\ UNCHANGED <<notifyArg, chanVars>>
    /\ UNCHANGED <<addr, dispPc, dispArg, bcastPc, bcastArg, statsPc, statsLen,
                   events>>
    /\ UNCHANGED <<muVars, pumpVars>>
    /\ IF chClosed[notifyArg.client] \/ ~Full(M, notifyArg.client)
       THEN UNCHANGED arrival
       ELSE Submit([kind |-> "notify", client |-> NoClient])
    /\ UNCHANGED <<statsOut, now, ID>>

\* BroadcastToAll: the caller blocks in m.broadcast <- message
BroadcastToAll(type) ==
    /\ Running
    /\ bcastPc = "idle"
    /\ events < MaxEvents
    /\ events' = events + 1
    /\ bcastPc' = "send"
    /\ bcastArg' = [client |-> NoClient, type |-> type]
    /\ UNCHANGED <<addr, dispPc, dispArg, notifyPc, notifyArg, statsPc, statsLen>>
    /\ UNCHANGED <<chanVars, muVars, pumpVars>>
    /\ Submit([kind |-> "broadcast", client |-> NoClient])
    /\ UNCHANGED <<statsOut, now, ID>>

\* GetConnectedUsers: the addresses that have an entry
GetConnectedUsers(st) == {a \in Addresses : st.clients[a] # NoClient}

\* GetStats, lines 370-374: RLock and len(m.clients)
GetStatsLen ==
    /\ Running
    /\ statsPc = "idle"
    /\ ~muWriter
    /\ muReaders' = muReaders + 1
    /\ statsLen' = Cardinality(GetConnectedUsers(M))
    /\ statsPc' = "users"
    /\ UNCHANGED <<addr, dispPc, dispArg, muWriter, notifyPc, notifyArg,
                   bcastPc, bcastArg, events>>
    /\ UNCHANGED <<chanVars, pumpVars>>
    /\ UNCHANGED arrival
    /\ statsOut' = NoStats
    /\ UNCHANGED <<now, ID>>

\* GetStats, line 375: the nested RLock of GetConnectedUsers, then both
\* read locks are released and GetStats returns
GetStatsUsers ==
    /\ Running
    /\ statsPc = "users"
    /\ ~muWriter
    /\ muReaders' = muReaders - 1
    /\ statsLen' = 0
    /\ statsPc' = "idle"
    /\ UNCHANGED <<addr, dispPc, dispArg, muWriter, notifyPc, notifyArg,
                   bcastPc, bcastArg, events>>
    /\ UNCHANGED <<chanVars, pumpVars>>
    /\ UNCHANGED arrival
    /\ statsOut' = [connected_clients |-> statsLen,
                      connected_users |-> GetConnectedUsers(M)]
    /\ UNCHANGED <<now, ID>>

\* ---- Client.readPump ----

\* c.Conn.ReadMessage returned a frame {"type":"ping"}
ReadPumpPing(s) ==
    /\ Running
    /\ readPc[s] = "read"
    /\ ~connClosed[s]
    /\ events < MaxEvents
    /\ events' = events + 1
    /\ readPc' = [readPc EXCEPT ![s] = "ping"]
    /\ UNCHANGED <<addr, upPc, writePc, wire, closeFrame, dispPc, dispArg,
                   notifyPc, notifyArg, bcastPc, bcastArg, statsPc, statsLen>>
    /\ UNCHANGED <<chanVars, muVars>>
    /\ UNCHANGED arrival
    /\ UNCHANGED <<statsOut, now, ID>>

\* handleClientMessage, case "ping": the pong is dropped on a full queue
handleClientMessage(st, c) ==
    IF st.chClosed[c] \/ ~Full(st, c) THEN TrySend(st, c, "pong") ELSE st

ReadPumpHandle(s) ==
    /\ Running
    /\ readPc[s] = "ping"
    /\ Commit(handleClientMessage(M, s))
    /\ readPc' = [readPc EXCEPT ![s] = "read"]
    /\ UNCHANGED <<addr, upPc, writePc, wire, closeFrame, dispPc, dispArg>>
    /\ UNCHANGED <<muVars, apiVars>>
    /\ UNCHANGED arrival
    /\ UNCHANGED <<statsOut, now, ID>>

\* a transport fault (peer gone, deadline expired, network error) is an input;
\* on a transport closed on this side every read and write fails
Fault(s) ==
    /\ connClosed[s] \/ events < MaxEvents
    /\ events' = IF connClosed[s] THEN events ELSE events + 1

\* c.Conn.ReadMessage returned an error: break, and the deferred function
\* blocks in c.Manager.unregister <- c
ReadPumpError(s) ==
    /\ Running
    /\ readPc[s] = "read"
    /\ Fault(s)
    /\ readPc' = [readPc EXCEPT ![s] = "unregister"]
    /\ UNCHANGED <<addr, upPc, writePc, wire, closeFrame, dispPc, dispArg>>
    /\ UNCHANGED <<chanVars, muVars>>
    /\ UNCHANGED <<notifyPc, notifyArg, bcastPc, bcastArg, statsPc, statsLen>>
    /\ Submit([kind |-> "unregister", client |-> s])
    /\ UNCHANGED <<statsOut, now, ID>>

\* the deferred c.Conn.Close() of readPump
ReadPumpClose(s) ==
    /\ Running
    /\ readPc[s] = "close"
    /\ Commit(ConnClose(M, s))
    /\ readPc' = [readPc EXCEPT ![s] = "done"]
    /\ UNCHANGED <<addr, upPc, writePc, wire, closeFrame, dispPc, dispArg>>
    /\ UNCHANGED <<muVars, apiVars>>
    /\ UNCHANGED arrival
    /\ UNCHANGED <<statsOut, now, ID>>

\* ---- Client.writePump ----

\* a pump that takes the newest message
DequeueNewest(q) == [msg |-> q[Len(q)], rest |-> SubSeq(q, 1, Len(q) - 1)]

\* the message the pump takes from c.Send: the oldest one
Dequeue(q) == [msg |-> Head(q), rest |-> Tail(q)]

\* case message, ok := <-c.Send with ok: WriteJSON succeeds only on an open
\* transport; on an error the pump returns and closes the transport
WritePumpMessage(s, ok) ==
    /\ Running
    /\ writePc[s] = "run"
    /\ Len(Send[s]) > 0
    /\ Send' = [Send EXCEPT ![s] = Dequeue(Send[s]).rest]
    /\ IF ok
       THEN /\ ~connClosed[s]
            /\ wire' = [wire EXCEPT ![s] = Append(@, Dequeue(Send[s]).msg.n)]
            /\ UNCHANGED <<writePc, connClosed, events>>
       ELSE /\ Fault(s)
            /\ writePc' = [writePc EXCEPT ![s] = "done"]
            /\ connClosed' = [connClosed EXCEPT ![s] = TRUE]
            /\ UNCHANGED wire
    /\ UNCHANGED <<clients, addr, chClosed, seq, inserted, removed, closeFrame,
                   upPc, readPc, dispPc, dispArg, panic>>
    /\ UNCHANGED muVars
    /\ UNCHANGED <<notifyPc, notifyArg, bcastPc, bcastArg, statsPc, statsLen>>
    /\ UNCHANGED arrival
    /\ UNCHANGED <<statsOut, now, ID>>

\* case message, ok := <-c.Send with !ok (closed and drained): the close
\* frame is written, the pump returns and closes the transport
WritePumpClosed(s) ==
    /\ Running
    /\ writePc[s] = "run"
    /\ Len(Send[s]) = 0
    /\ chClosed[s]
    /\ closeFrame' = [closeFrame EXCEPT ![s] = ~connClosed[s]]
    /\ writePc' = [writePc EXCEPT ![s] = "done"]
    /\ connClosed' = [connClosed EXCEPT ![s] = TRUE]
    /\ UNCHANGED <<clients, addr, Send, chClosed, seq, inserted, removed, wire,
                   upPc, readPc, dispPc, dispArg, panic>>
    /\ UNCHANGED <<muVars, apiVars>>
    /\ UNCHANGED arrival
    /\ UNCHANGED <<statsOut, now, ID>>

\* case <-ticker.C with a failed ping write: the pump returns and closes the
\* transport (a ping that is written changes nothing)
WritePumpPingError(s) ==
    /\ Running
    /\ writePc[s] = "run"
    /\ Fault(s)
    /\ writePc' = [writePc EXCEPT ![s] = "done"]
    /\ connClosed' = [connClosed EXCEPT ![s] = TRUE]
    /\ UNCHANGED <<clients, addr, Send, chClosed, seq, inserted, removed, wire,
                   closeFrame, upPc, readPc, dispPc, dispArg, panic>>
    /\ UNCHANGED muVars
    /\ UNCHANGED <<notifyPc, notifyArg, bcastPc, bcastArg, statsPc, statsLen>>
    /\ UNCHANGED arrival
    /\ UNCHANGED <<statsOut, now, ID>>

\* ---- the system ----

\* Manager.Start: the select loop and its three handlers
Start ==
    \/ \E s \in Sessions : StartRegister(s)
    \/ \E s \in Sessions : StartUnregisterPump(s)
    \/ StartUnregisterNotify
    \/ StartBroadcast
    \/ DoRegister
    \/ DoUnregister
    \/ DoBroadcast
    \/ DoBroadcastRace

readPump(s) ==
    \/ ReadPumpPing(s)
    \/ ReadPumpHandle(s)
    \/ ReadPumpError(s)
    \/ ReadPumpClose(s)

writePump(s) ==
    \/ \E ok \in BOOLEAN : WritePumpMessage(s, ok)
    \/ WritePumpClosed(s)
    \/ WritePumpPingError(s)

NotifyUser ==
    \/ \E a \in Addresses, type \in NotifyTypes : NotifyUserLookup(a, type)
    \/ NotifyUserAbsent
    \/ NotifyUserSend

\* The manager with its clients and the callers of the delivery API.
Next ==
    \/ \E s \in Sessions : \E a \in AddressesOf(s) : UpgradeConnection(s, a)
    \/ \E s \in Sessions : UpgradeFailed(s)
    \/ Start
    \/ NotifyUser
    \/ \E type \in BroadcastTypes : BroadcastToAll(type)
    \/ \E s \in Sessions : readPump(s)
    \/ \E s \in Sessions : writePump(s)

Spec == Init /\ [][Next]_vars

\* The same with a caller of GetStats.  GetStats writes none of the variables
\* the steps of Next read except m.mu, and holding m.mu only delays them, so
\* every state of the manager reachable here is reachable under Spec.
NextStats ==
    \/ Next
    \/ LockWait
    \/ GetStatsLen
    \/ GetStatsUsers

SpecStats == Init /\ [][NextStats]_vars

\* The Go scheduler runs every goroutine that can take a step: the dispatcher,
\* a NotifyUser after its lookup, and a GetStats before its nested RLock.
FairSpecStats ==
    /\ SpecStats
    /\ WF_vars(Start \/ LockWait)
    /\ WF_vars(NotifyUserAbsent \/ NotifyUserSend)
    /\ WF_vars(GetStatsUsers)

\* The scheduler also runs the pumps.  A read pump handles the frame it has
\* read, gets the error of a read on a transport closed on this side, and runs
\* its deferred Close; a write pump takes the message or the close of its
\* queue.  Frames and faults that come from the peer are inputs and are not
\* forced.
FairSpecPumps ==
    /\ FairSpecStats
    /\ \A s \in Sessions :
          /\ WF_vars(\/ ReadPumpHandle(s)
                     \/ ReadPumpClose(s)
                     \/ connClosed[s] /\ ReadPumpError(s))
          /\ WF_vars(\/ \E ok \in BOOLEAN : WritePumpMessage(s, ok)
                     \/ WritePumpClosed(s))

\* The same with the clock running.  Client.ID is the only value computed
\* from the time and nothing reads it, so the steps of Next do not depend on
\* the clock.
NextClock ==
    \/ Next
    \/ Tick

SpecClock == Init /\ [][NextClock]_vars

\* ---- properties ----

\* the client s has been built
Created(s) == upPc[s] \in {"register", "started"}

\* s is the registry's entry for its address
Registered(s) == Created(s) /\ clients[addr[s]] = s

\* the registry holds another client under the address of c
Stale(c) == clients[KeyOf(c)] \notin {NoClient, c}

\* C1: a stale Unregister is a no-op.  When the dispatcher handles
\* Unregister(S1) while another session S2 is the registry's entry for the
\* address of S1, the registry, every queue and every transport are left as
\* they were, and the dispatcher does not panic.
StaleUnregisterIsNoOp ==
    [][(DoUnregister /\ Stale(dispArg.client)) => UNCHANGED chanVars]_vars

\* C2: eviction on reconnect.  When the dispatcher handles Register(S2) while
\* S1 is the registry's entry for the address of S2, then afterwards the queue
\* of S1 is closed, the transport of S1 is closed and the registry maps the
\* address to S2.
EvictionOnReconnect ==
    [][\A s1 \in Sessions :
          (DoRegister /\ clients[KeyOf(dispArg.client)] = s1)
             => /\ chClosed'[s1]
                /\ connClosed'[s1]
                /\ clients'[KeyOf(dispArg.client)] = dispArg.client]_vars

\* C3: the dispatch loop never crashes: the dispatcher never closes a queue
\* that is already closed.
DispatcherNeverPanics == panic # CloseOfClosed

\* C4 (I1): for every address a, the registry holds at most one session bound
\* to a.
I1 ==
    \A a \in Addresses :
        Cardinality({k \in Addresses :
                        clients[k] # NoClient /\ addr[clients[k]] = a}) <= 1

\* two sessions were registered for one address and the registry holds one
TwoSessionsOneEntry ==
    \E s1, s2 \in Sessions :
        /\ s1 # s2
        /\ upPc[s1] = "started"
        /\ upPc[s2] = "started"
        /\ addr[s1] = addr[s2]
        /\ dispPc = "select"
        /\ Registered(s2)
        /\ \A k \in Addresses : clients[k] # s1

\* the registered sessions whose outbound queue is full
Saturated == {s \in Sessions : Registered(s) /\ Full(M, s)}

\* q2 is q1 with exactly one message of the type appended at its tail
OneAppended(q1, q2, type) ==
    /\ Len(q2) = Len(q1) + 1
    /\ SubSeq(q2, 1, Len(q1)) = q1
    /\ q2[Len(q2)].type = type

\* C5: delivery isolation.  A broadcast handled while exactly one registered
\* session has a full queue removes that session from the registry and
\* appends exactly one copy of the message at the tail of the queue of every
\* other registered session, which stays registered.
DeliveryIsolation ==
    [][(DoBroadcast /\ Cardinality(Saturated) = 1) =>
          \A s \in Sessions :
             Registered(s) =>
                IF s \in Saturated
                THEN clients'[addr[s]] = NoClient
                ELSE /\ clients'[addr[s]] = s
                     /\ OneAppended(Send[s], Send'[s], dispArg.type)]_vars

\* one broadcast has evicted the saturated s and reached t: the queue of s was
\* filled by a message that is no broadcast and is closed with its transport
\* left open (only broadcastMessage does that to a welcomed client), and t
\* holds the welcome and the broadcast; the four inputs were the two
\* connections, the message that filled s and the broadcast
BroadcastEvictedOne ==
    \E s, t \in Sessions :
        /\ s # t
        /\ Created(s)
        /\ clients[addr[s]] = NoClient
        /\ chClosed[s]
        /\ ~connClosed[s]
        /\ Len(Send[s]) = SendCap
        /\ Send[s][1].type = "connected"
        /\ \A i \in 1..Len(Send[s]) : Send[s][i].type \notin BroadcastTypes
        /\ Registered(t)
        /\ seq[t] = 2
        /\ Len(Send[t]) = 2
        /\ Send[t][2].type \in BroadcastTypes
        /\ events = 4

\* the state Unregister of s produces
Unregistered(s) ==
    /\ clients[addr[s]] = NoClient
    /\ chClosed[s]
    /\ connClosed[s]

\* C6: slow-consumer eviction has the outcome of Unregister.  When the
\* broadcast finds the queue of a registered session full, and when the
\* dispatcher has handled the Unregister that NotifyUser issued on a full
\* queue, that session is absent from the registry, its queue is closed and
\* its transport is closed.
SlowConsumerUnregistered ==
    [][/\ \A s \in Saturated : DoBroadcast => Unregistered(s)'
       /\ (DoUnregister /\ dispArg.type = "NotifyUser")
             => Unregistered(dispArg.client)']_vars

\* C7: NotifyUser and BroadcastToAll are fire-and-forget.  Every call that
\* has started returns to its caller, or the process has ended in a panic.
CallsReturn ==
    /\ (notifyPc # "idle") ~> (notifyPc = "idle" \/ ~Running)
    /\ (bcastPc # "idle") ~> (bcastPc = "idle" \/ ~Running)

\* C8: unicast to an absent address is a no-op.  A NotifyUser whose lookup
\* finds no entry for the address goes to its return and returns, and neither
\* step changes the registry, a queue, a transport, a pump, the lock, the
\* dispatcher or a command channel.
UnicastToAbsentIsNoOp ==
    [][/\ \A a \in Addresses, type \in NotifyTypes :
             (NotifyUserLookup(a, type) /\ clients[a] = NoClient)
                => /\ notifyPc' = "absent"
                   /\ UNCHANGED <<chanVars, pumpVars, muVars, addr, dispPc,
                                  dispArg, arrival, notifyArg, bcastPc,
                                  bcastArg>>
       /\ (notifyPc = "absent" /\ notifyPc' # "absent")
             => /\ notifyPc' = "idle"
                /\ UNCHANGED <<chanVars, pumpVars, muVars, addr, dispPc,
                               dispArg, arrival, notifyArg, bcastPc,
                               bcastArg>>]_vars

\* NotifyUser has found no entry for its address and is about to return
NotifyFoundAbsent == notifyPc = "absent"

\* C9: idempotent unregister.  In every reachable state and for every session
\* S, handling Unregister(S) twice in a row leaves the registry, the queues,
\* the transports and the panic state exactly as handling it once does.
UnregisterIdempotent ==
    \A c \in Sessions :
        Created(c) =>
            unregisterClient(unregisterClient(M, c), c) = unregisterClient(M, c)

\* the Unregister(s) of the read pump of s has been handled and the
\* Unregister(s) of NotifyUser is at the dispatcher, with no other session
\* ever created for the address of s
SecondUnregisterReceived ==
    \E s \in Sessions :
        /\ dispPc = "unregister"
        /\ dispArg = [client |-> s, type |-> "NotifyUser"]
        /\ readPc[s] \in {"close", "done"}
        /\ Unregistered(s)
        /\ \A t \in Sessions : t # s => addr[t] # addr[s]

\* C10: per-address FIFO.  The i-th message a write pump writes to its
\* transport is the i-th message that was enqueued on the session's queue.
WireIsFifo ==
    \A s \in Sessions : \A i \in 1..Len(wire[s]) : wire[s][i] = i

\* a pump has written two messages while a third one waits in the queue
WroteTwoOfThree ==
    \E s \in Sessions : Len(wire[s]) = 2 /\ Len(Send[s]) = 1

\* C11: welcome first.  The first message ever accepted by the outbound queue
\* of a session is the "connected" message: no pong, unicast or broadcast
\* message is enqueued on the session before it.
WelcomeFirst ==
    [][\A s \in Sessions :
          (seq[s] = 0 /\ seq'[s] = 1)
             => Send'[s] = <<[type |-> "connected", n |-> 1]>>]_vars

\* C12: ping/pong.  Handling a ping frame read by the read pump of s appends
\* exactly one "pong" at the tail of the queue of s when that queue has room;
\* when the queue is full it changes no queue; in both cases the registry and
\* the transports are left alone, nothing panics and the read pump goes back
\* to reading.
PingPong ==
    [][\A s \in Sessions :
          ReadPumpHandle(s) =>
             /\ IF Full(M, s)
                THEN UNCHANGED <<Send, seq>>
                ELSE /\ OneAppended(Send[s], Send'[s], "pong")
                     /\ \A t \in Sessions \ {s} : Send'[t] = Send[t]
             /\ UNCHANGED <<clients, chClosed, connClosed, panic>>
             /\ readPc'[s] = "read"]_vars

\* C13: Stats() is a snapshot of one registry state.  The count GetStats read
\* with len(m.clients) is the number of entries of the registry from which
\* GetConnectedUsers collects the addresses it returns with it.
StatsIsSnapshot ==
    [][GetStatsUsers => statsLen = Cardinality(GetConnectedUsers(M))]_vars

\* s is no entry of the registry
Absent(s) == \A k \in Addresses : clients[k] # s

\* C14: read-side teardown.  Once the read pump of s has left its loop on a
\* read error and issues Unregister(s), the session is eventually absent from
\* the registry with its transport closed, or the process has ended in a
\* panic.
ReadSideTeardown ==
    \A s \in Sessions :
        (readPc[s] = "unregister")
            ~> ((Absent(s) /\ connClosed[s]) \/ ~Running)

\* C15: a handshake failure is invisible to the core.  The failing upgrade
\* changes nothing but the position of its caller: the registry, the queues,
\* the transports, the pumps, the dispatcher and its command channels stay as
\* they are; and for a failed upgrade there is never a client, a Register, a
\* pump or a registry entry.
HandshakeFailureInvisible ==
    /\ [][\A s \in Sessions :
             UpgradeFailed(s)
                => UNCHANGED <<chanVars, muVars, addr, readPc, writePc, wire,
                               closeFrame, dispPc, dispArg, arrival, notifyPc,
                               notifyArg, bcastPc, bcastArg>>]_vars
    /\ [](\A s \in Sessions :
             upPc[s] = "failed"
                => /\ addr[s] = NoAddr
                   /\ readPc[s] = "off"
                   /\ writePc[s] = "off"
                   /\ Absent(s)
                   /\ dispArg.client # s
                   /\ \A i \in 1..Len(arrival) : arrival[i].client # s
                   /\ seq[s] = 0)

\* an upgrade has failed and a later connection is registered
FailedThenRegistered ==
    \E s, t \in Sessions : upPc[s] = "failed" /\ s < t /\ Registered(t)

\* the command the dispatcher handles may take the entry of s out of the
\* registry: a Register of a newer session for the address of s displaces it,
\* its own Unregister removes it, and it is evicted by a broadcast that finds
\* its queue full or by its own Register when the welcome finds it full
RemovalCause(s) ==
    \/ /\ dispPc = "register"
       /\ dispArg.client # s
       /\ addr[dispArg.client] = addr[s]
    \/ dispPc = "unregister" /\ dispArg.client = s
    \/ dispPc = "broadcast" /\ Full(M, s)
    \/ dispPc = "register" /\ dispArg.client = s /\ Full(M, s)

\* both pumps of s have exited and its transport is released
Closed(s) == readPc[s] = "done" /\ writePc[s] = "done" /\ connClosed[s]

\* C16: each session is inserted into the registry at most once, its entry is
\* removed at most once, a removal is a displacement, the session's own
\* unregistration or an eviction, and a session that was removed or closed is
\* never inserted.
InsertedOnceRemovedOnce ==
    /\ [](\A s \in Sessions : inserted[s] <= 1 /\ removed[s] <= 1)
    /\ [][\A s \in Sessions :
             removed'[s] # removed[s] => RemovalCause(s)]_vars
    /\ [][\A s \in Sessions :
             inserted'[s] # inserted[s]
                => removed[s] = 0 /\ ~chClosed[s] /\ ~Closed(s)]_vars

\* C17: no unsynchronised access to the registry.  Every step that inserts
\* into or deletes from the registry map is taken by a handler that holds the
\* write lock (registerClient, unregisterClient) while no other goroutine
\* holds the read lock, and the runtime never finds a read and a write of the
\* map racing.
NoUnsynchronisedAccess ==
    /\ [][(inserted' # inserted \/ removed' # removed)
             => /\ dispPc \in {"register", "unregister"}
                /\ muReaders = 0]_vars
    /\ [](panic # ConcurrentMapAccess)

\* C18: the registry is mutated only by the dispatcher.  Every step that
\* inserts into or deletes from the registry is the dispatcher handling the
\* one Register, Unregister or broadcast command it has received, and the
\* dispatcher receives a command only when it is handling none.
OnlyDispatcherMutates ==
    /\ [][(clients' # clients \/ inserted' # inserted \/ removed' # removed)
             => /\ DoRegister \/ DoUnregister \/ DoBroadcast
                /\ dispPc # "select"
                /\ dispPc' = "select" \/ panic' # NoPanic]_vars
    /\ [][(dispPc' # dispPc /\ dispPc' # "select") => dispPc = "select"]_vars

\* the dispatcher has registered s and t, has removed s on the Unregister of
\* its read pump, and awaits the next command with t registered
MutatedBySeveralCommands ==
    \E s, t \in Sessions :
        /\ s # t
        /\ inserted[s] = 1
        /\ removed[s] = 1
        /\ readPc[s] = "done"
        /\ Registered(t)
        /\ dispPc = "select"
        /\ Running

\* C19: arrival order.  The dispatcher receives the commands in the order in
\* which their senders began to wait on the command channels: the command it
\* receives, of whatever kind, is the one that has waited longest.
ArrivalOrder ==
    [][Len(arrival') < Len(arrival) => arrival' = Tail(arrival)]_vars

\* C20: teardown completes.  Once the outbound queue of s is closed, both
\* pumps of s eventually have exited with the transport closed, and a write
\* pump that was running when the queue was closed eventually has sent the
\* close frame - or the process has ended in a panic.
TeardownCompletes ==
    \A s \in Sessions :
        /\ chClosed[s] ~> (Closed(s) \/ ~Running)
        /\ (chClosed[s] /\ writePc[s] = "run")
              ~> (closeFrame[s] \/ ~Running)

\* C21: both pumps report failure.  Once the write pump of s has exited on a
\* failed write (it has exited and the queue of s was not closed), an
\* Unregister for s is eventually issued to the dispatcher and the entry of s
\* is eventually removed from the registry - or the process has ended in a
\* panic.
WriteFailureUnregisters ==
    \A s \in Sessions :
        /\ (writePc[s] = "done" /\ ~chClosed[s])
              ~> (readPc[s] \in {"unregister", "close", "done"} \/ ~Running)
        /\ (writePc[s] = "done" /\ ~chClosed[s])
              ~> (removed[s] >= 1 \/ ~Running)

\* C22: the dispatcher never waits on a pump.  Whenever the dispatcher has
\* received a command it finishes handling it and is back at its select,
\* whatever the pumps do: no fairness is assumed of any pump.
DispatcherReturns == (dispPc # "select") ~> (dispPc = "select")

\* the steps in which the program deals with a transport error of s: a pump
\* of s gets the error and exits, the read pump of s closes the transport,
\* and the dispatcher handles the Unregister the read pump of s has sent
TransportErrorStep(s) ==
    \/ ReadPumpError(s)
    \/ ReadPumpClose(s)
    \/ WritePumpMessage(s, FALSE)
    \/ WritePumpPingError(s)
    \/ DoUnregister /\ dispArg = [client |-> s, type |-> "readPump"]

\* C23: transport-error containment.  The steps that deal with a transport
\* error of s leave every other session's registry entry, outbound queue and
\* transport as they are and do not end the process, so that pending
\* commands are still processed.
TransportErrorContained ==
    [][\A s \in Sessions :
          TransportErrorStep(s)
             => /\ \A t \in Sessions \ {s} :
                      /\ Registered(t) => Registered(t)'
                      /\ chClosed'[t] = chClosed[t]
                      /\ connClosed'[t] = connClosed[t]
                      /\ Send'[t] = Send[t]
                /\ panic' = panic]_vars

\* C24: NotifyUser never enqueues onto a closed queue.  When NotifyUser
\* attempts its send, the outbound queue of the client it looked up is not
\* closed.
NotifyNeverOnClosed ==
    [][NotifyUserSend => ~chClosed[notifyArg.client]]_vars

\* C25: the read pump never enqueues a pong onto a closed queue.  When the
\* read pump of s handles a ping, the outbound queue of s is not closed.
PongNeverOnClosed ==
    [][\A s \in Sessions : ReadPumpHandle(s) => ~chClosed[s]]_vars

\* C26: every registered session is deliverable.  Whenever the dispatcher is
\* between two commands, the outbound queue of every session that is an entry
\* of the registry is not closed.
RegisteredIsDeliverable ==
    dispPc = "select" =>
        \A a \in Addresses : clients[a] # NoClient => ~chClosed[clients[a]]

\* the dispatcher has closed the queue of s on the reconnect of t for the
\* same address, the write pump of s has exited, and t is registered with an
\* open queue while the dispatcher awaits the next command
DisplacedAndDeliverable ==
    \E s, t \in Sessions :
        /\ s # t
        /\ addr[s] = addr[t]
        /\ chClosed[s]
        /\ writePc[s] = "done"
        /\ Registered(t)
        /\ ~chClosed[t]
        /\ dispPc = "select"
        /\ Running

\* C27: Stats() cannot deadlock the dispatcher.  A GetStats that holds the
\* read lock can always take it again and return, and a dispatcher that has a
\* Register or an Unregister in hand can take the write lock, or the reader
\* it waits for can go on.
StatsNeverDeadlocks ==
    Running =>
        /\ statsPc = "users" => ENABLED GetStatsUsers
        /\ dispPc \in {"register", "unregister"}
              => ENABLED (DoRegister \/ DoUnregister) \/ ENABLED GetStatsUsers

\* C28: Stats() is internally consistent.  In every value GetStats has
\* returned, connected_clients is the number of addresses in connected_users.
StatsConsistent ==
    statsOut # NoStats
        => statsOut.connected_clients = Cardinality(statsOut.connected_users)

\* C29: session identifiers are unique.  Any two distinct clients built by
\* UpgradeConnection have different IDs.
UniqueIDs ==
    \A s, t \in Sessions :
        (s # t /\ Created(s) /\ Created(t)) => ID[s] # ID[t]

====
